---- MODULE Spec2Model ----
(***************************************************************************)
(* Model of src/mastodonBot.ts: the posting bot that picks the playlist    *)
(* with the lowest posted_count from playlists_database.json, formats a    *)
(* status, posts it and increments the counter.                            *)
(*                                                                         *)
(* A process p is one invocation of main(); the store file is shared.      *)
(* Steps are split at the awaits of postRandomPlaylist (read, createStatus,*)
(* write), plus one step for the synchronous selection so that its result  *)
(* is visible in a state.                                                  *)
(***************************************************************************)
EXTENDS Integers, Sequences, FiniteSets, TLC

\* ---- bounds of the model ------------------------------------------------
MaxLen == 2        \* records in the stored collection
MaxCount == 1      \* largest posted_count in the initial store
MaxRuns == 3       \* invocations of main() in one sequential behaviour
MaxConcRuns == 2   \* invocations of main() in one interleaved behaviour
MaxNameLen == 5    \* characters of a playlist name in the formatting model

\* ---- values -------------------------------------------------------------
Absent == -1       \* posted_count?: the field is missing (undefined)
Infinity == 999    \* Math.min() of no arguments
Uris == {"spotify:playlist:a", "spotify:playlist:b", "spotify:playlist:c"}
NameOf(u) == IF u = "spotify:playlist:a" THEN "Focus Mix"
             ELSE IF u = "spotify:playlist:b" THEN "Chill Mix" ELSE "Daily"

PlaylistEntry == [name : {NameOf(u) : u \in Uris}, uri : Uris,
                  posted_count : {Absent} \cup Nat]
InitialEntries(us) == {[name |-> NameOf(u), uri |-> u, posted_count |-> c] :
                         u \in us, c \in {Absent} \cup (0..MaxCount)}
SeqsUpTo(S, n) == UNION {[1..k -> S] : k \in 0..n}

VARIABLES
  procs,        \* the processes (invocations of main) that may run
  file,         \* playlists_database.json: [exists, playlists]
  pc,           \* pc[p]: position of process p in postRandomPlaylist
  dryRun,       \* dryRun[p]: the --dry-run flag of the current run
  data,         \* data[p]: this.db.data.playlists of process p
  loaded,       \* loaded[p]: data[p] as it was right after db.read()
  loadedAt,     \* loadedAt[p]: number of completed writes when p read
  playlist,     \* playlist[p]: index in data[p] of the selected entry, 0 = null
  events,       \* events[p]: calls and outcomes of the current run, in order
  fileAtStart,  \* fileAtStart[p]: the file when the current run started
  file0,        \* the file before the first run
  runs,         \* invocations started so far
  nonDryRuns,   \* invocations started without --dry-run
  nwrites,      \* completed writes of the file
  name, artistNames, uri, statusText, fpc   \* the formatting model

storeVars == <<procs, file, pc, dryRun, data, loaded, loadedAt, playlist,
               events, fileAtStart, file0, runs, nonDryRuns, nwrites>>
fmtVars == <<name, artistNames, uri, statusText, fpc>>
vars == <<storeVars, fmtVars>>

\* ---- PlaylistDatabase ---------------------------------------------------
\* p.posted_count ?? 0
effective(e) == IF e.posted_count = Absent THEN 0 ELSE e.posted_count

\* a variant of minPostedCount with Math.max in place of Math.min
minPostedCount_max(playlists) ==
  IF Len(playlists) = 0 THEN Infinity
  ELSE CHOOSE m \in {effective(playlists[i]) : i \in 1..Len(playlists)} :
         \A i \in 1..Len(playlists) : m >= effective(playlists[i])

\* Math.min(...playlists.map(p => p.posted_count ?? 0))
minPostedCount(playlists) ==
  IF Len(playlists) = 0 THEN Infinity
  ELSE CHOOSE m \in {effective(playlists[i]) : i \in 1..Len(playlists)} :
         \A i \in 1..Len(playlists) : m <= effective(playlists[i])

\* playlists.filter(p => (p.posted_count ?? 0) === minPostedCount), as the
\* increasing sequence of the indices of the entries that pass the filter
RECURSIVE filterMin(_, _, _)
filterMin(playlists, m, i) ==
  IF i > Len(playlists) THEN <<>>
  ELSE (IF effective(playlists[i]) = m THEN <<i>> ELSE <<>>)
       \o filterMin(playlists, m, i + 1)

\* a variant of candidatePlaylists without the filter: every entry
candidatePlaylists_all(playlists) ==
  [i \in 1..Len(playlists) |-> i]

candidatePlaylists(playlists) ==
  filterMin(playlists, minPostedCount(playlists), 1)

\* Math.floor(Math.random() * n): any of 0..n-1, and 0 when n = 0
randomIndex(n) == IF n = 0 THEN {0} ELSE 0..(n - 1)

\* a variant of getLowestPostedCountPlaylist without the random choice:
\* the first entry of the collection
getLowestPostedCountPlaylist_first(playlists) ==
  IF Len(playlists) = 0 THEN {0} ELSE {1}

\* candidatePlaylists[r] || null, for every r the random source can give;
\* the result is the index of the entry in playlists, 0 for null
getLowestPostedCountPlaylist(playlists) ==
  LET c == candidatePlaylists(playlists)
  IN {IF r + 1 <= Len(c) THEN c[r + 1] ELSE 0 : r \in randomIndex(Len(c))}

\* playlists.find(p => p.uri === playlistUri): first match, 0 when none
find(playlists, playlistUri) ==
  IF \E i \in 1..Len(playlists) : playlists[i].uri = playlistUri
  THEN CHOOSE i \in 1..Len(playlists) :
         /\ playlists[i].uri = playlistUri
         /\ \A j \in 1..(i - 1) : playlists[j].uri # playlistUri
  ELSE 0

\* a variant of incrementPostedCount that initialises the counter instead
\* of incrementing it
incrementPostedCount_init(playlists, playlistUri) ==
  LET i == find(playlists, playlistUri)
  IN IF i = 0 THEN playlists
     ELSE [playlists EXCEPT ![i].posted_count = 1]

\* the in-memory part of incrementPostedCount
incrementPostedCount(playlists, playlistUri) ==
  LET i == find(playlists, playlistUri)
  IN IF i = 0 THEN playlists
     ELSE [playlists EXCEPT ![i].posted_count = effective(playlists[i]) + 1]

\* ---- PlaylistBot.postRandomPlaylist -------------------------------------
\* new Low(adapter, { playlists: [] })
defaultData == <<>>

\* the number of invocations a behaviour may hold
RunLimit == IF Cardinality(procs) > 1 THEN MaxConcRuns ELSE MaxRuns

\* main(): a new process run; the constructor gives the default data
StartRun(p, d) ==
  /\ pc[p] \in {"idle", "done", "failed"}
  /\ runs < RunLimit
  /\ pc' = [pc EXCEPT ![p] = "start"]
  /\ dryRun' = [dryRun EXCEPT ![p] = d]
  /\ data' = [data EXCEPT ![p] = defaultData]
  /\ loaded' = [loaded EXCEPT ![p] = defaultData]
  /\ loadedAt' = [loadedAt EXCEPT ![p] = nwrites]
  /\ playlist' = [playlist EXCEPT ![p] = 0]
  /\ events' = [events EXCEPT ![p] = <<>>]
  /\ fileAtStart' = [fileAtStart EXCEPT ![p] = file]
  /\ runs' = runs + 1
  /\ nonDryRuns' = IF d THEN nonDryRuns ELSE nonDryRuns + 1
  /\ UNCHANGED <<procs, file, file0, nwrites, fmtVars>>

\* a variant of Read without the default data: a missing file fails the run
Read_noDefault(p) ==
  /\ pc[p] = "start"
  /\ pc' = [pc EXCEPT ![p] = IF file.exists THEN "loaded" ELSE "failed"]
  /\ data' = [data EXCEPT ![p] = IF file.exists THEN file.playlists ELSE data[p]]
  /\ loaded' = [loaded EXCEPT ![p] = data'[p]]
  /\ loadedAt' = [loadedAt EXCEPT ![p] = nwrites]
  /\ events' = [events EXCEPT ![p] = Append(@, "read")]
  /\ UNCHANGED <<procs, file, dryRun, playlist, fileAtStart, file0, runs,
                 nonDryRuns, nwrites, fmtVars>>

\* await this.db.read(): a missing file leaves the default data
Read(p) ==
  /\ pc[p] = "start"
  /\ pc' = [pc EXCEPT ![p] = "loaded"]
  /\ data' = [data EXCEPT ![p] = IF file.exists THEN file.playlists ELSE data[p]]
  /\ loaded' = [loaded EXCEPT ![p] = data'[p]]
  /\ loadedAt' = [loadedAt EXCEPT ![p] = nwrites]
  /\ events' = [events EXCEPT ![p] = Append(@, "read")]
  /\ UNCHANGED <<procs, file, dryRun, playlist, fileAtStart, file0, runs,
                 nonDryRuns, nwrites, fmtVars>>

\* await this.db.read() rejects (unreadable file): the run fails
ReadFail(p) ==
  /\ pc[p] = "start"
  /\ pc' = [pc EXCEPT ![p] = "failed"]
  /\ events' = [events EXCEPT ![p] = Append(@, "readFail")]
  /\ UNCHANGED <<procs, file, dryRun, data, loaded, loadedAt, playlist,
                 fileAtStart, file0, runs, nonDryRuns, nwrites, fmtVars>>

\* const playlist = getLowestPostedCountPlaylist(); if (!playlist) return
Select(p) ==
  /\ pc[p] = "loaded"
  /\ \E sel \in getLowestPostedCountPlaylist(data[p]) :
       /\ playlist' = [playlist EXCEPT ![p] = sel]
       /\ IF sel = 0
          THEN /\ pc' = [pc EXCEPT ![p] = "done"]
               /\ events' = [events EXCEPT ![p] = Append(@, "noPlaylists")]
          ELSE /\ pc' = [pc EXCEPT ![p] = "selected"]
               /\ events' = [events EXCEPT ![p] = Append(@, "selected")]
  /\ UNCHANGED <<procs, file, dryRun, data, loaded, loadedAt, fileAtStart,
                 file0, runs, nonDryRuns, nwrites, fmtVars>>

\* a variant of DryRunExit without the return: the dry run logs and falls
\* through to the publish
DryRunExit_fallthrough(p) ==
  /\ pc[p] = "selected"
  /\ dryRun[p]
  /\ pc' = [pc EXCEPT ![p] = "published"]
  /\ events' = [events EXCEPT ![p] = @ \o <<"dryRunLog", "publishOk">>]
  /\ UNCHANGED <<procs, file, dryRun, data, loaded, loadedAt, playlist,
                 fileAtStart, file0, runs, nonDryRuns, nwrites, fmtVars>>

\* if (dryRun) { log; return }
DryRunExit(p) ==
  /\ pc[p] = "selected"
  /\ dryRun[p]
  /\ pc' = [pc EXCEPT ![p] = "done"]
  /\ events' = [events EXCEPT ![p] = Append(@, "dryRunLog")]
  /\ UNCHANGED <<procs, file, dryRun, data, loaded, loadedAt, playlist,
                 fileAtStart, file0, runs, nonDryRuns, nwrites, fmtVars>>

\* await this.mastodon.createStatus(statusText) resolves
PublishOk(p) ==
  /\ pc[p] = "selected"
  /\ ~dryRun[p]
  /\ pc' = [pc EXCEPT ![p] = "published"]
  /\ events' = [events EXCEPT ![p] = Append(@, "publishOk")]
  /\ UNCHANGED <<procs, file, dryRun, data, loaded, loadedAt, playlist,
                 fileAtStart, file0, runs, nonDryRuns, nwrites, fmtVars>>

\* a variant of PublishFail whose increment is outside the try block: the
\* counter is incremented after a failed publish too
PublishFail_increments(p) ==
  /\ pc[p] = "selected"
  /\ ~dryRun[p]
  /\ pc' = [pc EXCEPT ![p] = "published"]
  /\ events' = [events EXCEPT ![p] = Append(@, "publishFail")]
  /\ UNCHANGED <<procs, file, dryRun, data, loaded, loadedAt, playlist,
                 fileAtStart, file0, runs, nonDryRuns, nwrites, fmtVars>>

\* await this.mastodon.createStatus(statusText) rejects: catch, log, return
PublishFail(p) ==
  /\ pc[p] = "selected"
  /\ ~dryRun[p]
  /\ pc' = [pc EXCEPT ![p] = "done"]
  /\ events' = [events EXCEPT ![p] = Append(@, "publishFail")]
  /\ UNCHANGED <<procs, file, dryRun, data, loaded, loadedAt, playlist,
                 fileAtStart, file0, runs, nonDryRuns, nwrites, fmtVars>>

\* this.db.incrementPostedCount(playlist.uri) up to its await this.write()
Increment(p) ==
  /\ pc[p] = "published"
  /\ LET u == data[p][playlist[p]].uri
     IN /\ data' = [data EXCEPT ![p] = incrementPostedCount(data[p], u)]
        /\ IF find(data[p], u) = 0
           THEN /\ pc' = [pc EXCEPT ![p] = "done"]
                /\ events' = [events EXCEPT ![p] = Append(@, "notFound")]
           ELSE /\ pc' = [pc EXCEPT ![p] = "writing"]
                /\ events' = [events EXCEPT ![p] = Append(@, "write")]
  /\ UNCHANGED <<procs, file, dryRun, loaded, loadedAt, playlist, fileAtStart,
                 file0, runs, nonDryRuns, nwrites, fmtVars>>

\* a variant of WriteOk that applies the increment to the current content
\* of the file instead of replacing the file by the collection in memory
WriteOk_merge(p) ==
  /\ pc[p] = "writing"
  /\ file' = [exists |-> TRUE,
              playlists |-> IF file.exists
                            THEN incrementPostedCount(file.playlists,
                                   data[p][playlist[p]].uri)
                            ELSE data[p]]
  /\ nwrites' = nwrites + 1
  /\ pc' = [pc EXCEPT ![p] = "done"]
  /\ events' = [events EXCEPT ![p] = Append(@, "writeOk")]
  /\ UNCHANGED <<procs, dryRun, data, loaded, loadedAt, playlist, fileAtStart,
                 file0, runs, nonDryRuns, fmtVars>>

\* await this.write() resolves: the whole collection replaces the file
WriteOk(p) ==
  /\ pc[p] = "writing"
  /\ file' = [exists |-> TRUE, playlists |-> data[p]]
  /\ nwrites' = nwrites + 1
  /\ pc' = [pc EXCEPT ![p] = "done"]
  /\ events' = [events EXCEPT ![p] = Append(@, "writeOk")]
  /\ UNCHANGED <<procs, dryRun, data, loaded, loadedAt, playlist, fileAtStart,
                 file0, runs, nonDryRuns, fmtVars>>

\* await this.write() rejects inside the try block: the catch of
\* postRandomPlaylist logs 'Error posting to Mastodon:' and the run returns
WriteFail(p) ==
  /\ pc[p] = "writing"
  /\ pc' = [pc EXCEPT ![p] = "done"]
  /\ events' = [events EXCEPT ![p] = Append(@, "writeFail")]
  /\ UNCHANGED <<procs, file, dryRun, data, loaded, loadedAt, playlist,
                 fileAtStart, file0, runs, nonDryRuns, nwrites, fmtVars>>

\* ---- specifications of the store model ----------------------------------
AllProcs == {1, 2}
InitialFiles(us) == {[exists |-> FALSE, playlists |-> <<>>]} \cup
                    {[exists |-> TRUE, playlists |-> s] :
                       s \in SeqsUpTo(InitialEntries(us), MaxLen)}

InitStore(ps, us) ==
  /\ procs = ps
  /\ file \in InitialFiles(us)
  /\ file0 = file
  /\ pc = [p \in AllProcs |-> "idle"]
  /\ dryRun = [p \in AllProcs |-> FALSE]
  /\ data = [p \in AllProcs |-> defaultData]
  /\ loaded = [p \in AllProcs |-> defaultData]
  /\ loadedAt = [p \in AllProcs |-> 0]
  /\ playlist = [p \in AllProcs |-> 0]
  /\ events = [p \in AllProcs |-> <<>>]
  /\ fileAtStart = [p \in AllProcs |-> file]
  /\ runs = 0
  /\ nonDryRuns = 0
  /\ nwrites = 0

FmtIdle ==
  /\ name = <<>>
  /\ artistNames = <<>>
  /\ uri = <<>>
  /\ statusText = <<>>
  /\ fpc = "off"

\* sequential runs: one process at a time on the store file
Init == InitStore({1}, Uris) /\ FmtIdle

Next ==
  \/ \E p \in procs, d \in BOOLEAN : StartRun(p, d)
  \/ \E p \in procs : Read(p)
  \/ \E p \in procs : ReadFail(p)
  \/ \E p \in procs : Select(p)
  \/ \E p \in procs : DryRunExit(p)
  \/ \E p \in procs : PublishOk(p)
  \/ \E p \in procs : PublishFail(p)
  \/ \E p \in procs : Increment(p)
  \/ \E p \in procs : WriteOk(p)
  \/ \E p \in procs : WriteFail(p)

Spec == Init /\ [][Next]_vars

\* two processes interleaved on the same store file
ConcUris == {"spotify:playlist:a", "spotify:playlist:b"}
InitConc == InitStore(AllProcs, ConcUris) /\ FmtIdle

SpecConc == InitConc /\ [][Next]_vars

\* ---- the status text (postRandomPlaylist, lines 107-110) -----------------
\* strings are sequences of characters; the fixed pieces of the template
\* ("Featuring ", the base URL, ", ") are single elements
Chars == {" ", "M", "i", "x", "a"}
Names == SeqsUpTo(Chars, MaxNameLen)
ArtistLists == {<<>>, <<"A">>, <<"A", "B", "C">>, <<"A", "B", "C", "D">>}
UriStrings == {<<"s", ":", "p", ":", "X", "Y">>, <<"X">>, <<"s", ":">>}
Mix == <<" ", "M", "i", "x">>

\* String.prototype.indexOf: position of the first occurrence, 0 when none
indexOf(s, pat) ==
  LET hits == {i \in 1..(Len(s) - Len(pat) + 1) :
                 SubSeq(s, i, i + Len(pat) - 1) = pat}
  IN IF hits = {} THEN 0 ELSE CHOOSE i \in hits : \A j \in hits : i <= j

\* String.prototype.replace with a string pattern: the first occurrence only
replace(s, pat, rep) ==
  LET i == indexOf(s, pat)
  IN IF i = 0 THEN s
     ELSE SubSeq(s, 1, i - 1) \o rep \o SubSeq(s, i + Len(pat), Len(s))

\* Array.prototype.slice(0, n)
slice0(a, n) == SubSeq(a, 1, IF Len(a) < n THEN Len(a) ELSE n)

\* Array.prototype.join(sep)
RECURSIVE join(_, _)
join(a, sep) ==
  IF Len(a) = 0 THEN <<>>
  ELSE IF Len(a) = 1 THEN <<a[1]>>
  ELSE <<a[1], sep>> \o join(Tail(a), sep)

\* uri.split(':').pop(): what follows the last colon
splitPop(s) ==
  LET colons == {i \in 1..Len(s) : s[i] = ":"}
  IN IF colons = {} THEN s
     ELSE SubSeq(s, (CHOOSE i \in colons : \A j \in colons : j <= i) + 1, Len(s))

artists(names) == join(slice0(names, 3), ", ")
urlFromUri(u) == <<"https://open.spotify.com/playlist/">> \o splitPop(u)
cleanName(n) == replace(n, Mix, <<>>)
formatStatus(n, names, u) ==
  cleanName(n) \o <<"\n", "Featuring ">> \o artists(names) \o <<"\n", "\n">>
  \o urlFromUri(u)

\* the text up to the first line break
firstLine(s) ==
  LET i == indexOf(s, <<"\n">>) IN IF i = 0 THEN s ELSE SubSeq(s, 1, i - 1)

endsWith(s, suf) ==
  Len(s) >= Len(suf) /\ SubSeq(s, Len(s) - Len(suf) + 1, Len(s)) = suf

Format ==
  /\ fpc = "selected"
  /\ statusText' = formatStatus(name, artistNames, uri)
  /\ fpc' = "formatted"
  /\ UNCHANGED <<name, artistNames, uri, storeVars>>

StoreIdle ==
  /\ procs = {}
  /\ file = [exists |-> FALSE, playlists |-> <<>>]
  /\ file0 = file
  /\ pc = [p \in AllProcs |-> "idle"]
  /\ dryRun = [p \in AllProcs |-> FALSE]
  /\ data = [p \in AllProcs |-> defaultData]
  /\ loaded = [p \in AllProcs |-> defaultData]
  /\ loadedAt = [p \in AllProcs |-> 0]
  /\ playlist = [p \in AllProcs |-> 0]
  /\ events = [p \in AllProcs |-> <<>>]
  /\ fileAtStart = [p \in AllProcs |-> file]
  /\ runs = 0
  /\ nonDryRuns = 0
  /\ nwrites = 0

InitFmt ==
  /\ StoreIdle
  /\ name \in Names
  /\ artistNames \in ArtistLists
  /\ uri \in UriStrings
  /\ statusText = <<>>
  /\ fpc = "selected"

NextFmt == Format

SpecFmt == InitFmt /\ [][NextFmt]_vars

\* ---- vocabulary of the properties --------------------------------------
Has(p, e) == \E i \in 1..Len(events[p]) : events[p][i] = e
Count(p, es) == Cardinality({i \in 1..Len(events[p]) : events[p][i] \in es})
DistinctUris(playlists) ==
  \A i, j \in 1..Len(playlists) : playlists[i].uri = playlists[j].uri => i = j
RECURSIVE SumCounts(_)
SumCounts(playlists) ==
  IF Len(playlists) = 0 THEN 0
  ELSE effective(Head(playlists)) + SumCounts(Tail(playlists))
AllEqualCounts(playlists) ==
  \A i, j \in 1..Len(playlists) :
    effective(playlists[i]) = effective(playlists[j])
SpreadAtMostOne(playlists) ==
  \A i, j \in 1..Len(playlists) :
    effective(playlists[i]) - effective(playlists[j]) <= 1

\* C1: on a non-empty collection the selection is never null: it is an entry
\* of the collection whose effective posted count is lower than or equal to
\* the effective posted count of every entry.
C1_SelectsMinimum ==
  \A p \in procs :
    (Len(loaded[p]) > 0 /\ (Has(p, "selected") \/ Has(p, "noPlaylists")))
    => /\ playlist[p] \in 1..Len(loaded[p])
       /\ \A i \in 1..Len(loaded[p]) :
            effective(loaded[p][playlist[p]]) <= effective(loaded[p][i])

C1_Witness ==
  /\ pc[1] = "selected"
  /\ Len(loaded[1]) = 2
  /\ playlist[1] = 2
  /\ effective(loaded[1][1]) > effective(loaded[1][2])

\* C2 (as claimed): when the publish succeeded and the write of the store
\* failed, the run ends as a failure (the rejection leaves
\* postRandomPlaylist).
C2_PersistFailurePropagates ==
  \A p \in procs :
    (Has(p, "publishOk") /\ Has(p, "writeFail")) => pc[p] = "failed"

\* C3 (as claimed): after a successful publish the in-memory collection is
\* the loaded one with the posted count of the selected entry raised by one,
\* whatever the collection.
C3_IncrementsSelected ==
  \A p \in procs :
    Has(p, "write")
    => data[p] = [loaded[p] EXCEPT ![playlist[p]].posted_count =
                    effective(loaded[p][playlist[p]]) + 1]

\* C3 (amended): after a successful publish exactly one entry has changed,
\* only in its posted count, which is raised by one: the first entry whose
\* uri is the uri of the selected entry.  It is the selected entry itself
\* when the uri values of the collection are distinct, and a completed write
\* of a sequential run stores exactly that collection.
C3_IncrementsFirstWithUri ==
  \A p \in procs :
    Has(p, "write")
    => /\ \E i \in 1..Len(loaded[p]) :
            /\ loaded[p][i].uri = loaded[p][playlist[p]].uri
            /\ \A j \in 1..(i - 1) :
                 loaded[p][j].uri # loaded[p][playlist[p]].uri
            /\ data[p] = [loaded[p] EXCEPT ![i].posted_count =
                            effective(loaded[p][i]) + 1]
            /\ DistinctUris(loaded[p]) => i = playlist[p]
       /\ Has(p, "writeOk") => file = [exists |-> TRUE, playlists |-> data[p]]

C3_Witness ==
  /\ pc[1] = "done"
  /\ Has(1, "writeOk")
  /\ Len(loaded[1]) = 2
  /\ DistinctUris(loaded[1])
  /\ playlist[1] = 2
  /\ loaded[1][2].posted_count = Absent
  /\ file.playlists[2].posted_count = 1

\* C4: when the publish fails in a run without --dry-run, the run ends
\* normally, the Publisher was called once, the write of the store was never
\* started, and neither the in-memory collection nor the file has changed.
C4_PublishFailureLeavesStore ==
  \A p \in procs :
    Has(p, "publishFail")
    => /\ pc[p] = "done"
       /\ Count(p, {"publishOk", "publishFail"}) = 1
       /\ Count(p, {"write", "writeOk", "writeFail"}) = 0
       /\ data[p] = loaded[p]
       /\ file = fileAtStart[p]

C4_Witness ==
  /\ pc[1] = "done"
  /\ Has(1, "publishFail")
  /\ ~dryRun[1]
  /\ Len(loaded[1]) = 2
  /\ nwrites = 1

\* C5: as long as every run so far was a dry run, the Publisher has not been
\* called, no write was started and the file is the file before the first
\* run.
C5_DryRunsKeepStore ==
  nonDryRuns = 0
  => /\ file = file0
     /\ \A p \in procs :
          Count(p, {"publishOk", "publishFail", "write", "writeOk",
                    "writeFail"}) = 0

C5_Witness ==
  /\ nonDryRuns = 0
  /\ runs = 2
  /\ pc[1] = "done"
  /\ Has(1, "dryRunLog")
  /\ Len(file.playlists) = 2

\* C6: in sequential runs over a file with distinct uri values, right after
\* a publish no entry of the file has a lower effective posted count than
\* the published entry, which is an entry of the file.
C6_PublishedIsMinimumOfFile ==
  \A p \in procs :
    (pc[p] = "published" /\ DistinctUris(file.playlists))
    => /\ playlist[p] \in 1..Len(file.playlists)
       /\ file.playlists[playlist[p]] = data[p][playlist[p]]
       /\ \A i \in 1..Len(file.playlists) :
            effective(data[p][playlist[p]]) <= effective(file.playlists[i])

C6_Witness ==
  /\ pc[1] = "published"
  /\ nwrites = 2
  /\ Len(file.playlists) = 2
  /\ DistinctUris(file.playlists)
  /\ effective(file.playlists[1]) # effective(file.playlists[2])

\* C7: when the loaded collection is empty (no file, or a file with no
\* entries) the selection is null and the run ends normally without calling
\* the Publisher, without starting a write and without changing the file.
C7_EmptyCollectionIsNoOp ==
  \A p \in procs :
    (Has(p, "read") /\ Len(loaded[p]) = 0)
    => /\ pc[p] \in {"loaded", "done"}
       /\ pc[p] = "done" => (playlist[p] = 0 /\ Has(p, "noPlaylists"))
       /\ Count(p, {"publishOk", "publishFail", "write", "writeOk",
                    "writeFail"}) = 0
       /\ file = fileAtStart[p]

C7_Witness ==
  /\ ~file0.exists
  /\ ~file.exists
  /\ pc[1] = "done"
  /\ Has(1, "noPlaylists")
  /\ ~dryRun[1]

\* C8 (as claimed): the first line of the status text is the name without
\* its suffix " Mix" when the name ends with " Mix", and the name itself
\* otherwise.
C8_StripsSuffixOnly ==
  fpc = "formatted"
  => firstLine(statusText) =
       IF endsWith(name, Mix) THEN SubSeq(name, 1, Len(name) - Len(Mix))
       ELSE name

\* C9: when two runs that read the same state of the file (both reads
\* precede both writes) have both published and ended, the effective posted
\* counts of the file have grown by less than two in total: an increment is
\* lost.
C9_IncrementLost ==
  \A p, q \in procs :
    (/\ p # q
     /\ pc[p] = "done" /\ pc[q] = "done"
     /\ Has(p, "publishOk") /\ Has(q, "publishOk")
     /\ loadedAt[p] = loadedAt[q])
    => SumCounts(file.playlists) - SumCounts(loaded[p]) < 2

C9_Witness ==
  /\ pc[1] = "done" /\ pc[2] = "done"
  /\ Has(1, "writeOk") /\ Has(2, "writeOk")
  /\ loadedAt[1] = loadedAt[2]
  /\ playlist[1] # playlist[2]
  /\ SumCounts(file.playlists) - SumCounts(loaded[1]) = 1

\* C10: when the file before the first run has distinct uri values and equal
\* effective posted counts, then after any sequence of sequential runs no
\* two effective posted counts of the file differ by more than one.
C10_Balanced ==
  (DistinctUris(file0.playlists) /\ AllEqualCounts(file0.playlists))
  => SpreadAtMostOne(file.playlists)

C10_Witness ==
  /\ DistinctUris(file0.playlists)
  /\ AllEqualCounts(file0.playlists)
  /\ Len(file0.playlists) = 2
  /\ nwrites = 3
  /\ ~AllEqualCounts(file.playlists)
====
